---- MODULE Spec2Model ----
(***************************************************************************)
(* Credential verification and user provisioning of the authentication      *)
(* service: the User Store (data/models.go), the bcrypt Password Hasher it  *)
(* calls, and the Authenticate / Register handlers with the logRequest      *)
(* side call (cmd/api handlers).                                            *)
(*                                                                         *)
(* A store call is in flight between the moment its query is sent and the   *)
(* moment the database answers or its context deadline (dbTimeOut) expires. *)
(* Each handler is cut at the calls on which it blocks; everything a        *)
(* handler does between two blocking calls is one action.                   *)
(***************************************************************************)
EXTENDS Integers, Sequences, FiniteSets, TLC

VARIABLES
    users,      \* table users: id -> row (the rows Postgres holds)
    nextId,     \* next value of the id sequence of table users
    now,        \* wall clock, seconds (time.Now())
    req,        \* one record per inbound HTTP request slot (handler position, response)
    direct,     \* a caller of the User Store API other than the two handlers
    hashTest    \* inputs and results of a Hash / Verify round trip (SpecHash only)

vars == <<users, nextId, now, req, direct, hashTest>>

----------------------------------------------------------------------------
(* Bounds of the model *)

MaxId == 2          \* ids the sequence hands out: 1..MaxId
MaxTime == 1        \* time stamps 0..MaxTime (the clock saturates there)
NSalt == 1          \* bcrypt salts 1..NSalt drawn per hash
MaxLen == 3         \* plaintext length in the Hash / Verify round trip
MaxByte == 1        \* plaintext bytes 0..MaxByte in the round trip (0 is NUL)

(* Program constants *)

dbTimeOut == 3              \* const dbTimeOut = time.Second * 3
Cost == 12                  \* bcrypt.GenerateFromPassword(..., 12)
KeyBytes == 72              \* bytes of key the bcrypt key schedule consumes
StatusBadRequest == 400
StatusAccepted == 202
StatusInternalServerError == 500

Reqs == {"r1", "r2"}
Ids == 1..MaxId
Salts == 1..NSalt
Emails == {"a@x.com", "b@x.com"}
Passwords == {<<1>>, <<2>>}
NoProfile == [first |-> "", last |-> "", active |-> FALSE]
\* The names and the active flag a request sends along with password pw.
ProfileOf(pw) == IF pw = <<1>> THEN [first |-> "A", last |-> "B", active |-> TRUE]
                 ELSE [first |-> "C", last |-> "D", active |-> FALSE]

Min(a, b) == IF a < b THEN a ELSE b

----------------------------------------------------------------------------
(* Password Hasher: golang.org/x/crypto/bcrypt as the store calls it *)

\* The key bcrypt feeds to the Blowfish key schedule: the password followed by
\* a NUL byte, repeated cyclically over KeyBytes bytes.
Key(plainText) ==
    LET ckey == Append(plainText, 0)
    IN  [i \in 1..KeyBytes |-> ckey[((i - 1) % Len(ckey)) + 1]]

\* bcrypt.GenerateFromPassword(password, 12): a self-describing hash holding
\* the version, the cost, the salt and the digest of (cost, salt, key).
GenerateFromPassword(plainText, salt) ==
    [kind |-> "bcrypt", cost |-> Cost, salt |-> salt,
     digest |-> <<Cost, salt, Key(plainText)>>]

\* A stored value that is no bcrypt hash (too short, bad prefix or cost).
RawPassword(plainText) ==
    [kind |-> "raw", cost |-> 0, salt |-> 0, digest |-> <<0, 0, plainText>>]

\* bcrypt.CompareHashAndPassword: "" on a match, the mismatch error, or the
\* error of a hash that does not parse.
ErrMismatchedHashAndPassword == "hashedPassword is not the hash of the given password"
ErrHashTooShort == "hashedSecret too short to be a bcrypted password"

CompareHashAndPassword(hashed, plainText) ==
    IF hashed.kind # "bcrypt" THEN ErrHashTooShort
    ELSE IF hashed.digest = <<hashed.cost, hashed.salt, Key(plainText)>> THEN ""
    ELSE ErrMismatchedHashAndPassword

\* func (u *User) PasswordMatches(plainText string) (bool, error)
PasswordMatches(u, plainText) ==
    LET err == CompareHashAndPassword(u.password, plainText)
    IN  IF err # ""
        THEN IF err = ErrMismatchedHashAndPassword
             THEN [valid |-> FALSE, err |-> ""]
             ELSE [valid |-> FALSE, err |-> err]
        ELSE [valid |-> TRUE, err |-> ""]

----------------------------------------------------------------------------
(* User Store: data/models.go.  Each operation is given as the set of ways  *)
(* the statement it sends can complete on table tbl with id sequence nid.   *)

NoCall == [op |-> "none", email |-> "", id |-> 0, password |-> <<>>,
           profile |-> NoProfile, at |-> 0, elapsed |-> 0]

\* context.WithTimeout(context.Background(), dbTimeOut) of every operation,
\* and the arguments its statement is sent with.
Call(op, email, id, password, profile, at) ==
    [op |-> op, email |-> email, id |-> id, password |-> password,
     profile |-> profile, at |-> at, elapsed |-> 0]

ErrNoUserEmail == "no user found with that email"
ErrNoUserID == "no user found with that ID"
ErrDeadlineExceeded == "context deadline exceeded"
ErrDuplicateKey == "pq: duplicate key value violates unique constraint"
ErrSyntax == "pq: syntax error at or near \"where\""

Out(tbl, nid, err, id, rows) ==
    [users |-> tbl, nextId |-> nid, err |-> err, id |-> id, rows |-> rows]

\* order by last_name
NameRank(name) == CASE name = "" -> 0 [] name = "B" -> 1 [] name = "D" -> 2
                    [] OTHER -> 3

\* func (u *User) GetAll() ([]*User, error): every row, sorted by last name;
\* rows with equal last names come in an order the database chooses.
GetAll(tbl, nid) ==
    LET n == Cardinality(DOMAIN tbl)
        orders == {s \in [1..n -> DOMAIN tbl] :
                     /\ \A i, j \in 1..n : i # j => s[i] # s[j]
                     /\ \A i, j \in 1..n : i < j =>
                           NameRank(tbl[s[i]].last_name) <= NameRank(tbl[s[j]].last_name)}
    IN  {Out(tbl, nid, "", 0, [i \in 1..n |-> tbl[s[i]]]) : s \in orders}

\* A GetByEmail that stamps the row it reads, as a "last seen" column would.
GetByEmailStamp(tbl, nid, email) ==
    LET hit == {i \in DOMAIN tbl : tbl[i].email = email}
        stamped == [i \in DOMAIN tbl |->
                       IF i \in hit THEN [tbl[i] EXCEPT !.updated_at = @ + 1] ELSE tbl[i]]
    IN  IF hit = {}
        THEN {Out(tbl, nid, ErrNoUserEmail, 0, <<>>)}
        ELSE {Out(stamped, nid, "", 0, <<stamped[i]>>) : i \in hit}

\* func (u *User) GetByEmail(email string) (*User, error)
GetByEmail(tbl, nid, email) ==
    LET hit == {i \in DOMAIN tbl : tbl[i].email = email}
    IN  IF hit = {}
        THEN {Out(tbl, nid, ErrNoUserEmail, 0, <<>>)}
        ELSE {Out(tbl, nid, "", 0, <<tbl[i]>>) : i \in hit}

\* database/sql's ErrNoRows, as Scan returns it.
ErrNoRows == "sql: no rows in result set"

\* A GetOne that hands Scan's error on as it is.
GetOneRaw(tbl, nid, id) ==
    IF id \in DOMAIN tbl
    THEN {Out(tbl, nid, "", 0, <<tbl[id]>>)}
    ELSE {Out(tbl, nid, ErrNoRows, 0, <<>>)}

\* func (u *User) GetOne(id int) (*User, error)
GetOne(tbl, nid, id) ==
    IF id \in DOMAIN tbl
    THEN {Out(tbl, nid, "", 0, <<tbl[id]>>)}
    ELSE {Out(tbl, nid, ErrNoUserID, 0, <<>>)}

\* func (u *User) Update() error: the statement has a comma before "where",
\* which Postgres rejects, so no row is ever changed.
Update(tbl, nid, c) ==
    {Out(tbl, nid, ErrSyntax, 0, <<>>)}

\* func (u *User) Delete() error
Delete(tbl, nid, id) ==
    {Out([i \in DOMAIN tbl \ {id} |-> tbl[i]], nid, "", 0, <<>>)}

\* func (u *User) DeleteByID(id int) error
DeleteByID(tbl, nid, id) ==
    {Out([i \in DOMAIN tbl \ {id} |-> tbl[i]], nid, "", 0, <<>>)}

\* The row Insert sends: the password column is the bcrypt hash, both time
\* stamps are the time.Now() taken before the statement is sent.
NewRow(nid, c, hashedPassword) ==
    [id |-> nid, email |-> c.email, first_name |-> c.profile.first,
     last_name |-> c.profile.last, password |-> hashedPassword,
     user_active |-> c.profile.active, created_at |-> c.at, updated_at |-> c.at]

\* An Insert into a table whose email column has no unique constraint.
InsertNoUnique(tbl, nid, c) ==
    {Out([i \in DOMAIN tbl \cup {nid} |->
             IF i = nid THEN NewRow(nid, c, GenerateFromPassword(c.password, salt))
             ELSE tbl[i]],
         nid + 1, "", nid, <<>>) : salt \in Salts}

\* An Insert that skips bcrypt and stores the password as it was given.
InsertRaw(tbl, nid, c) ==
    IF \E i \in DOMAIN tbl : tbl[i].email = c.email
    THEN {Out(tbl, nid, ErrDuplicateKey, 0, <<>>)}
    ELSE {Out([i \in DOMAIN tbl \cup {nid} |->
                  IF i = nid THEN NewRow(nid, c, RawPassword(c.password)) ELSE tbl[i]],
              nid + 1, "", nid, <<>>)}

\* func (u *User) Insert(user User) (int, error); email is unique in table users.
Insert(tbl, nid, c) ==
    IF \E i \in DOMAIN tbl : tbl[i].email = c.email
    THEN {Out(tbl, nid, ErrDuplicateKey, 0, <<>>)}
    ELSE {Out([i \in DOMAIN tbl \cup {nid} |->
                  IF i = nid THEN NewRow(nid, c, GenerateFromPassword(c.password, salt))
                  ELSE tbl[i]],
              nid + 1, "", nid, <<>>) : salt \in Salts}

\* func (u *User) ResetPassword(password string) error
ResetPassword(tbl, nid, c) ==
    {Out([i \in DOMAIN tbl |->
             IF i = c.id
             THEN [tbl[i] EXCEPT !.password = GenerateFromPassword(c.password, salt)]
             ELSE tbl[i]],
         nid, "", 0, <<>>) : salt \in Salts}

IsWrite(op) == op \in {"Insert", "Update", "ResetPassword", "Delete", "DeleteByID"}

\* The ways the statement of call c completes before its deadline.
Completions(c, tbl, nid) ==
    CASE c.op = "GetAll" -> GetAll(tbl, nid)
      [] c.op = "GetByEmail" -> GetByEmail(tbl, nid, c.email)
      [] c.op = "GetOne" -> GetOne(tbl, nid, c.id)
      [] c.op = "Update" -> Update(tbl, nid, c)
      [] c.op = "Delete" -> Delete(tbl, nid, c.id)
      [] c.op = "DeleteByID" -> DeleteByID(tbl, nid, c.id)
      [] c.op = "Insert" -> Insert(tbl, nid, c)
      [] c.op = "ResetPassword" -> ResetPassword(tbl, nid, c)

\* A call made with context.Background() alone: no deadline ever passes.
NoDeadline(c) == FALSE

\* ctx.Done(): the deadline of the call's context has passed.
DeadlineExceeded(c) == c.elapsed >= dbTimeOut

\* The ways call c returns once its deadline has passed: the driver gives up
\* and the operation returns the context's error.  The statement is one
\* atomic statement: the cancellation either reached the database before it
\* took effect, or after it was committed.
Expirations(c, tbl, nid) ==
    {Out(tbl, nid, ErrDeadlineExceeded, 0, <<>>)}
    \cup {Out(o.users, o.nextId, ErrDeadlineExceeded, 0, <<>>) :
            o \in {x \in Completions(c, tbl, nid) : IsWrite(c.op)}}

\* Every way call c can return in the current state.
Returns(c, tbl, nid) ==
    IF DeadlineExceeded(c) THEN Expirations(c, tbl, nid) ELSE Completions(c, tbl, nid)

----------------------------------------------------------------------------
(* Response writing: the helpers readJson, errorJson and writeJson and the  *)
(* envelope jsonReponse {error, message, data}.                            *)

NoResp == [status |-> 0, body |-> <<>>]

\* type User struct: Password carries the tag json:"-", so the serialised
\* user has every field but the password.
PublicProjection(u) ==
    [id |-> u.id, email |-> u.email, first_name |-> u.first_name,
     last_name |-> u.last_name, active |-> u.user_active,
     created_at |-> u.created_at, updated_at |-> u.updated_at]

\* app.readJson: the error of a body that is no JSON object of the expected
\* shape or that lacks the email or the password, "" otherwise.
readJson(p) ==
    IF ~p.wellFormed THEN "body must be a single JSON value"
    ELSE IF p.email = "" \/ p.password = <<>> THEN "missing field"
    ELSE ""

\* app.writeJson(w, status, payload): the first WriteHeader fixes the status
\* line, every call appends its envelope to the body.
writeJson(resp, status, payload) ==
    [status |-> IF resp.status = 0 THEN status ELSE resp.status,
     body |-> Append(resp.body, payload)]

\* app.errorJson(w, err, status...)
errorJson(resp, message, status) ==
    writeJson(resp, status, [error |-> TRUE, message |-> <<message, "">>, data |-> {}])

\* The status errorJson uses when the caller passes none.
errorJsonDefaultStatus == StatusBadRequest

----------------------------------------------------------------------------
(* Handlers: func (app *Config) Authenticate / logRequest / Register        *)

NoPayload == [wellFormed |-> FALSE, email |-> "", password |-> <<>>, profile |-> NoProfile]

Payload(e, pw, pf) == [wellFormed |-> TRUE, email |-> e, password |-> pw, profile |-> pf]

AuthPayloads ==
    {Payload(e, pw, NoProfile) : e \in Emails, pw \in Passwords}
    \cup {Payload("", <<1>>, NoProfile), Payload("a@x.com", <<>>, NoProfile), NoPayload}

RegisterPayloads ==
    {Payload(e, pw, ProfileOf(pw)) : e \in Emails, pw \in Passwords}
    \cup {Payload("", <<1>>, ProfileOf(<<1>>)), Payload("a@x.com", <<>>, ProfileOf(<<>>)),
          NoPayload}

\* What the client of a slot remembers of the Register it sent before the
\* current request: the pair it sent and how the service answered.
NoPrev == [email |-> "", password |-> <<>>, outcome |-> "none"]

\* log is the error the handler last wrote with log.Printf, notified the
\* number of "logged in" events the request has posted to the logger-service,
\* cancelled the store operation that was in flight when the request's
\* context was cancelled ("" while it is not).
IdleReq == [kind |-> "none", pc |-> "idle", payload |-> NoPayload, call |-> NoCall,
            user |-> <<>>, resp |-> NoResp, log |-> "", notified |-> 0,
            cancelled |-> "", prev |-> NoPrev]

RowsOf(tbl, e) == {tbl[i] : i \in {j \in DOMAIN tbl : tbl[j].email = e}}

\* Calls in flight, over the request slots and the direct caller.
InFlight == {req[r].call : r \in {x \in Reqs : req[x].call.op # "none"}}
            \cup (IF direct.call.op # "none" THEN {direct.call} ELSE {})

PendingInserts ==
    Cardinality({r \in Reqs : req[r].call.op = "Insert"})
    + (IF direct.call.op = "Insert" THEN 1 ELSE 0)

\* The id sequence is capped: an Insert is sent only while an id is left for it.
IdLeft == nextId + PendingInserts <= MaxId

\* Authenticate, lines 14-31: decode the payload and send GetByEmail.
\* kind is "Authenticate" (the handler that logs) or "AuthenticateNoLog"
\* (the handler without the logRequest call).
AuthenticateStart(r, kind, p) ==
    /\ req[r].pc = "idle"
    /\ LET err == readJson(p)
       IN  req' = [req EXCEPT ![r] =
               IF err # ""
               THEN [req[r] EXCEPT !.kind = kind, !.pc = "done", !.payload = p,
                                    !.resp = errorJson(NoResp, err, StatusBadRequest)]
               ELSE [req[r] EXCEPT !.kind = kind, !.pc = "GetByEmail", !.payload = p,
                                    !.call = Call("GetByEmail", p.email, 0, <<>>, NoProfile, 0)]]
    /\ UNCHANGED <<users, nextId, now, direct, hashTest>>

\* Authenticate, lines 41-53: the password check and the envelopes written
\* after it.  The rejection branch does not return.
AuthenticateVerify(q) ==
    LET u == q.user[1]
        m == PasswordMatches(u, q.payload.password)
        rejected == IF m.err # "" \/ ~m.valid
                    THEN errorJson(q.resp, "Invalid credentials 2", StatusBadRequest)
                    ELSE q.resp
    IN  [q EXCEPT !.pc = "done",
                  !.resp = writeJson(rejected, StatusAccepted,
                                     [error |-> FALSE,
                                      message |-> <<"Logged in user", u.email>>,
                                      data |-> {PublicProjection(u)}])]

\* Authenticate, lines 26-34: GetByEmail returned; with a user, the handler
\* that logs posts its event before the password is looked at.
AuthenticateGetByEmail(r) ==
    /\ req[r].pc = "GetByEmail"
    /\ \E o \in Returns(req[r].call, users, nextId) :
         /\ users' = o.users
         /\ nextId' = o.nextId
         /\ LET q == [req[r] EXCEPT !.call = NoCall]
            IN  req' = [req EXCEPT ![r] =
                    IF o.err # ""
                    THEN [q EXCEPT !.pc = "done",
                                   !.resp = errorJson(NoResp, "Invalid credentials 1",
                                                      StatusBadRequest)]
                    ELSE IF q.kind = "Authenticate"
                    THEN [q EXCEPT !.pc = "logRequest", !.user = o.rows,
                                   !.notified = @ + 1]
                    ELSE AuthenticateVerify([q EXCEPT !.user = o.rows])]
    /\ UNCHANGED <<now, direct, hashTest>>

\* logRequest and Authenticate, lines 33-53: client.Do returned, with or
\* without an error.
AuthenticateLogRequest(r) ==
    /\ req[r].pc = "logRequest"
    /\ \E reachable \in BOOLEAN :
         req' = [req EXCEPT ![r] =
             IF ~reachable
             THEN [@ EXCEPT !.pc = "done",
                            !.resp = errorJson(NoResp, "dial tcp: logger-service unreachable",
                                               errorJsonDefaultStatus)]
             ELSE AuthenticateVerify(@)]
    /\ UNCHANGED <<users, nextId, now, direct, hashTest>>

\* A Register that goes on after the payload was rejected.
RegisterStartNoCheck(r, p) ==
    /\ req[r].pc = "idle"
    /\ IdLeft
    /\ req' = [req EXCEPT ![r] =
           [req[r] EXCEPT !.kind = "Register", !.pc = "Insert", !.payload = p,
                          !.resp = IF readJson(p) # ""
                                   THEN errorJson(NoResp, readJson(p), StatusBadRequest)
                                   ELSE NoResp,
                          !.call = Call("Insert", p.email, 0, p.password, p.profile, now)]]
    /\ UNCHANGED <<users, nextId, now, direct, hashTest>>

\* Register, lines 84-105: decode the payload and send Insert.
RegisterStart(r, p) ==
    /\ req[r].pc = "idle"
    /\ LET err == readJson(p)
       IN  /\ err = "" => IdLeft
           /\ req' = [req EXCEPT ![r] =
               IF err # ""
               THEN [req[r] EXCEPT !.kind = "Register", !.pc = "done", !.payload = p,
                                    !.resp = errorJson(NoResp, err, StatusBadRequest)]
               ELSE [req[r] EXCEPT !.kind = "Register", !.pc = "Insert", !.payload = p,
                                    !.call = Call("Insert", p.email, 0, p.password,
                                                  p.profile, now)]]
    /\ UNCHANGED <<users, nextId, now, direct, hashTest>>

\* Register, lines 105-112: Insert returned; on success send GetOne.
RegisterInsert(r) ==
    /\ req[r].pc = "Insert"
    /\ \E o \in Returns(req[r].call, users, nextId) :
         /\ users' = o.users
         /\ nextId' = o.nextId
         /\ req' = [req EXCEPT ![r] =
                IF o.err # ""
                THEN [@ EXCEPT !.pc = "done", !.call = NoCall, !.log = o.err,
                               !.resp = errorJson(NoResp, "Unable to insert user into database",
                                                  StatusInternalServerError)]
                ELSE [@ EXCEPT !.pc = "GetOne",
                               !.call = Call("GetOne", "", o.id, <<>>, NoProfile, 0)]]
    /\ UNCHANGED <<now, direct, hashTest>>

\* Register, lines 112-124: GetOne returned; write the response.
RegisterGetOne(r) ==
    /\ req[r].pc = "GetOne"
    /\ \E o \in Returns(req[r].call, users, nextId) :
         /\ users' = o.users
         /\ nextId' = o.nextId
         /\ req' = [req EXCEPT ![r] =
                IF o.err # ""
                THEN [@ EXCEPT !.pc = "done", !.call = NoCall,
                               !.resp = errorJson(NoResp, "User not found after insert",
                                                  StatusInternalServerError)]
                ELSE [@ EXCEPT !.pc = "done", !.call = NoCall, !.user = o.rows,
                               !.resp = writeJson(NoResp, StatusAccepted,
                                   [error |-> FALSE,
                                    message |-> <<"User successfully registered",
                                                  o.rows[1].email>>,
                                    data |-> {PublicProjection(o.rows[1])}])]]
    /\ UNCHANGED <<now, direct, hashTest>>

\* The client of request r goes away while a store operation of the request
\* is in flight: net/http cancels r.Context().  The handlers never read that
\* context and every store operation derives its own from
\* context.Background(), so nothing but the request's context changes.
Cancel(r) ==
    /\ req[r].pc \in {"GetByEmail", "Insert", "GetOne"}
    /\ req[r].cancelled = ""
    /\ req' = [req EXCEPT ![r].cancelled = req[r].pc]
    /\ UNCHANGED <<users, nextId, now, direct, hashTest>>

\* The handler has returned and the response is with a client that goes
\* away: the slot is free for the request of another client.
ClientEnd(r) ==
    /\ req[r].pc = "done"
    /\ req' = [req EXCEPT ![r] = IdleReq]
    /\ UNCHANGED <<users, nextId, now, direct, hashTest>>

\* The handler has returned and the response is with a client that will send
\* its next request on this slot, remembering the Register it has just sent.
RequestEnd(r) ==
    /\ req[r].pc = "done"
    /\ req' = [req EXCEPT ![r] =
           [IdleReq EXCEPT !.prev =
               IF req[r].kind # "Register" \/ readJson(req[r].payload) # "" THEN NoPrev
               ELSE [email |-> req[r].payload.email, password |-> req[r].payload.password,
                     outcome |-> IF ~req[r].resp.body[1].error THEN "registered"
                                 ELSE IF req[r].log = ErrDuplicateKey THEN "duplicate"
                                 ELSE "failed"]]]
    /\ UNCHANGED <<users, nextId, now, direct, hashTest>>

----------------------------------------------------------------------------
(* A caller of the User Store API outside the two handlers *)

NoResult == [op |-> "none", email |-> "", err |-> "", id |-> 0, rows |-> <<>>]
IdleDirect == [call |-> NoCall, result |-> NoResult]

DirectReads ==
    {Call("GetAll", "", 0, <<>>, NoProfile, 0)}
    \cup {Call("GetByEmail", e, 0, <<>>, NoProfile, 0) : e \in Emails}
    \cup {Call("GetOne", "", i, <<>>, NoProfile, 0) : i \in Ids}

\* Changes to rows that exist.
DirectChanges ==
    {Call("Update", "b@x.com", i, <<>>, ProfileOf(<<2>>), now) : i \in Ids}
    \cup {Call("Delete", "", i, <<>>, NoProfile, 0) : i \in Ids}
    \cup {Call("DeleteByID", "", i, <<>>, NoProfile, 0) : i \in Ids}
    \cup {Call("ResetPassword", "", i, pw, NoProfile, 0) : i \in Ids, pw \in Passwords}

DirectWrites ==
    DirectChanges
    \cup {Call("Insert", e, 0, pw, ProfileOf(pw), now) : e \in Emails, pw \in Passwords}

DirectCalls == DirectReads \cup DirectWrites

\* A store operation is called: its context is created and its statement sent.
DirectCall(c) ==
    /\ direct.call.op = "none"
    /\ c.op = "Insert" => IdLeft
    /\ direct' = [call |-> c, result |-> NoResult]
    /\ UNCHANGED <<users, nextId, now, req, hashTest>>

DirectReturn(o) ==
    /\ users' = o.users
    /\ nextId' = o.nextId
    /\ direct' = [call |-> NoCall,
                  result |-> [op |-> direct.call.op, email |-> direct.call.email,
                              err |-> o.err, id |-> o.id, rows |-> o.rows]]
    /\ UNCHANGED <<now, req, hashTest>>

\* The database answers before the deadline.
DirectComplete ==
    /\ direct.call.op # "none"
    /\ ~DeadlineExceeded(direct.call)
    /\ \E o \in Completions(direct.call, users, nextId) : DirectReturn(o)

\* The deadline passes first: the operation returns the context's error.
DirectExpire ==
    /\ direct.call.op # "none"
    /\ DeadlineExceeded(direct.call)
    /\ \E o \in Expirations(direct.call, users, nextId) : DirectReturn(o)

\* One second passes, for the clock and for every call in flight.
Elapse(c) == IF c.op = "none" THEN c
             ELSE [c EXCEPT !.elapsed = Min(c.elapsed + 1, dbTimeOut)]

Tick ==
    /\ \/ now < MaxTime
       \/ \E c \in InFlight : c.elapsed < dbTimeOut
    /\ now' = Min(now + 1, MaxTime)
    /\ req' = [r \in Reqs |-> [req[r] EXCEPT !.call = Elapse(@)]]
    /\ direct' = [direct EXCEPT !.call = Elapse(@)]
    /\ UNCHANGED <<users, nextId, hashTest>>

----------------------------------------------------------------------------
(* Hash / Verify round trip on arbitrary inputs *)

Plaintexts == UNION {[1..n -> 0..MaxByte] : n \in 0..MaxLen}

NoHashTest == [stage |-> "off", p |-> <<>>, q |-> <<>>, salt |-> 0,
               hashed |-> RawPassword(<<>>), matched |-> [valid |-> FALSE, err |-> ""]]

\* Hash(p): what Insert and ResetPassword store for plaintext p.
HashStep ==
    /\ hashTest.stage = "input"
    /\ hashTest' = [hashTest EXCEPT !.stage = "hashed",
                       !.hashed = GenerateFromPassword(hashTest.p, hashTest.salt)]
    /\ UNCHANGED <<users, nextId, now, req, direct>>

\* A stored value that did not come from the hasher.
CorruptStep ==
    /\ hashTest.stage = "input"
    /\ hashTest' = [hashTest EXCEPT !.stage = "corrupt", !.hashed = RawPassword(hashTest.p)]
    /\ UNCHANGED <<users, nextId, now, req, direct>>

\* Verify(hash, q): PasswordMatches on a user holding the stored value.
VerifyStep ==
    /\ hashTest.stage \in {"hashed", "corrupt"}
    /\ hashTest' = [hashTest EXCEPT
                       !.stage = IF @ = "hashed" THEN "verified" ELSE "verifiedCorrupt",
                       !.matched = PasswordMatches([password |-> hashTest.hashed], hashTest.q)]
    /\ UNCHANGED <<users, nextId, now, req, direct>>

----------------------------------------------------------------------------
(* Specifications *)

Init ==
    /\ users = <<>>
    /\ nextId = 1
    /\ now = 0
    /\ req = [r \in Reqs |-> IdleReq]
    /\ direct = IdleDirect
    /\ hashTest = NoHashTest

\* The steps of the handlers for the requests of slots R.
Handlers(R) ==
    \/ \E r \in R, p \in AuthPayloads : AuthenticateStart(r, "Authenticate", p)
    \/ \E r \in R, p \in AuthPayloads : AuthenticateStart(r, "AuthenticateNoLog", p)
    \/ \E r \in R : AuthenticateGetByEmail(r)
    \/ \E r \in R : AuthenticateLogRequest(r)
    \/ \E r \in R, p \in RegisterPayloads : RegisterStart(r, p)
    \/ \E r \in R : RegisterInsert(r)
    \/ \E r \in R : RegisterGetOne(r)

\* One client sending one request after another, with time passing.
Next == Handlers({"r1"}) \/ RequestEnd("r1") \/ Tick

Spec == Init /\ [][Next]_vars

\* The store API alone, with time passing and deadlines firing.
NextStore ==
    \/ \E c \in DirectCalls : DirectCall(c)
    \/ DirectComplete
    \/ DirectExpire
    \/ Tick

FairStoreSpec ==
    Init /\ [][NextStore]_vars /\ WF_vars(Tick) /\ WF_vars(DirectExpire)

\* Requests served while the read operations of the store are called beside them.
NextRead ==
    \/ Handlers({"r1"})
    \/ ClientEnd("r1")
    \/ \E c \in DirectReads : DirectCall(c)
    \/ DirectComplete
    \/ DirectExpire
    \/ Tick

ReadSpec == Init /\ [][NextRead]_vars

\* Requests served while the rows they created are changed beside them.
NextWrite ==
    \/ Handlers({"r1"})
    \/ ClientEnd("r1")
    \/ \E c \in DirectChanges : DirectCall(c)
    \/ DirectComplete
    \/ DirectExpire
    \/ Tick

WriteSpec == Init /\ [][NextWrite]_vars

\* Two requests served concurrently.
NextConcurrent == Handlers(Reqs) \/ (\E r \in Reqs : ClientEnd(r)) \/ Tick

ConcurrentSpec == Init /\ [][NextConcurrent]_vars

\* Requests whose client may go away while they are served.
NextCancel == Handlers({"r1"}) \/ ClientEnd("r1") \/ Cancel("r1") \/ Tick

CancelSpec == Init /\ [][NextCancel]_vars

InitHash ==
    /\ users = <<>>
    /\ nextId = 1
    /\ now = 0
    /\ req = [r \in Reqs |-> IdleReq]
    /\ direct = IdleDirect
    /\ \E p \in Plaintexts, q \in Plaintexts, s \in Salts :
         hashTest = [NoHashTest EXCEPT !.stage = "input", !.p = p, !.q = q, !.salt = s]

NextHash == HashStep \/ CorruptStep \/ VerifyStep

SpecHash == InitHash /\ [][NextHash]_vars

----------------------------------------------------------------------------
(* Properties *)

AuthKinds == {"Authenticate", "AuthenticateNoLog"}

Done(r, kinds) == req[r].pc = "done" /\ req[r].kind \in kinds

\* The lookup of request r returned a row.
Found(r) == req[r].user # <<>>

\* The password of request r verifies against the row its lookup returned.
Verified(r) == PasswordMatches(req[r].user[1], req[r].payload.password).valid

\* The one success envelope, with status 202.
Success(resp) ==
    /\ resp.status = StatusAccepted
    /\ Len(resp.body) = 1
    /\ resp.body[1].error = FALSE

\* Nothing but rejections, with status 400.
Refused(resp) ==
    /\ resp.status = StatusBadRequest
    /\ Len(resp.body) >= 1
    /\ \A i \in DOMAIN resp.body : resp.body[i].error /\ resp.body[i].data = {}

\* What the client can tell of a response without reading the messages:
\* the status code and the error flag of every envelope written.
Observable(resp) ==
    [status |-> resp.status, errors |-> [i \in DOMAIN resp.body |-> resp.body[i].error]]

\* C1: after a Register that succeeded for (email, password), the next
\* request being an Authenticate with that pair whose lookup returned the row,
\* the Authenticate answers with the single success envelope (202, error=false) carrying
\* the public projection of the row, without the password hash.
C1_RegisteredPairAuthenticates ==
    \A r \in Reqs :
        (/\ Done(r, AuthKinds)
         /\ req[r].prev.outcome = "registered"
         /\ req[r].prev.email = req[r].payload.email
         /\ req[r].prev.password = req[r].payload.password
         /\ Found(r))
        => /\ Success(req[r].resp)
           /\ req[r].resp.body[1].data = {PublicProjection(req[r].user[1])}
           /\ \A d \in req[r].resp.body[1].data : "password" \notin DOMAIN d

\* C2: an Authenticate with a wrong password for an email that has a row and
\* an Authenticate for an email that has no row give the client the same
\* status code and the same error flags.
C2_WrongPasswordLikeUnknownEmail ==
    \A ra, rb \in Reqs :
        (/\ Done(ra, AuthKinds) /\ Found(ra) /\ ~Verified(ra)
         /\ Done(rb, AuthKinds) /\ readJson(req[rb].payload) = ""
         /\ ~Found(rb) /\ RowsOf(users, req[rb].payload.email) = {})
        => Observable(req[ra].resp) = Observable(req[rb].resp)

\* C3: every Authenticate request writes exactly one envelope, and when the
\* password did not verify that envelope is the rejection, with no user data.
C3_OneEnvelopePerAuthenticate ==
    \A r \in Reqs :
        Done(r, AuthKinds)
        => /\ Len(req[r].resp.body) = 1
           /\ (Found(r) /\ ~Verified(r)) => Refused(req[r].resp)

\* C4: when the email has a row and the password verifies, the client gets
\* the success response, whether or not the call to the logger failed.
C4_NotifierFailureKeepsSuccess ==
    \A r \in Reqs :
        (Done(r, AuthKinds) /\ Found(r) /\ Verified(r)) => Success(req[r].resp)

\* C5: a Register rejected for a duplicate email answers with an error
\* envelope only and the email keeps its row;
\* the Authenticate sent next for that email succeeds when its password
\* verifies against the row and is refused when it sends the password of the
\* rejected registration.
C5_DuplicateRegisterLeavesStore ==
    \A r \in Reqs :
        /\ (Done(r, {"Register"}) /\ req[r].log = ErrDuplicateKey)
           => /\ Len(req[r].resp.body) = 1 /\ req[r].resp.body[1].error
              /\ RowsOf(users, req[r].payload.email) # {}
        /\ (/\ Done(r, AuthKinds) /\ Found(r)
            /\ req[r].prev.outcome = "duplicate"
            /\ req[r].prev.email = req[r].payload.email)
           => /\ Verified(r) => Success(req[r].resp)
              /\ (~Verified(r) /\ req[r].prev.password = req[r].payload.password)
                 => Refused(req[r].resp)

\* C6: for every non-empty plaintext p (taken here without NUL bytes),
\* Verify(Hash(p), p) is true with no error and Verify(Hash(p), q) is false
\* with no error for every q other than p; Verify returns an error only on a
\* stored value that is no hash.
C6_HashVerifyRoundTrip ==
    /\ (/\ hashTest.stage = "verified"
        /\ hashTest.p # <<>>
        /\ \A i \in DOMAIN hashTest.p : hashTest.p[i] # 0)
       => /\ hashTest.matched.err = ""
          /\ hashTest.matched.valid <=> (hashTest.q = hashTest.p)
    /\ hashTest.matched.err # "" => hashTest.stage = "verifiedCorrupt"

StoreOps == {"GetAll", "GetByEmail", "GetOne", "Insert", "Update", "ResetPassword",
             "Delete", "DeleteByID"}

\* The step is the return of the store call in flight at the direct caller.
DirectReturns == direct.call.op # "none" /\ direct'.call.op = "none"

LacksField(r) ==
    \/ ~req[r].payload.wellFormed
    \/ req[r].payload.email = ""
    \/ req[r].payload.password = <<>>

ReadOps == {"GetAll", "GetByEmail", "GetOne"}

\* C9: every step of an Authenticate request and every return of GetAll,
\* GetByEmail or GetOne, whatever its outcome, leaves the table and the id
\* sequence as they were; the row GetByEmail returned to Authenticate and the
\* row it returned to another caller for the same email are equal in every
\* field, updated_at included.
C9_ReadsLeaveStoreUnchanged ==
    /\ [][/\ (DirectReturns /\ direct.call.op \in ReadOps)
             => users' = users /\ nextId' = nextId
          /\ \A r \in Reqs :
               ((req[r].kind \in AuthKinds \/ req'[r].kind \in AuthKinds)
                /\ req'[r] # req[r])
               => users' = users /\ nextId' = nextId]_vars
    /\ [](\A r \in Reqs :
            (/\ req[r].kind \in AuthKinds /\ Found(r)
             /\ direct.result.op = "GetByEmail" /\ direct.result.err = ""
             /\ direct.result.email = req[r].payload.email)
            => direct.result.rows = req[r].user)

\* GetByEmail returned the same row to Authenticate and to the direct caller.
C9_Witness ==
    \E r \in Reqs :
        /\ Done(r, AuthKinds) /\ Found(r)
        /\ direct.result.op = "GetByEmail" /\ direct.result.err = ""
        /\ direct.result.email = req[r].payload.email
        /\ direct.result.rows = req[r].user

\* The calls in flight that carry a password to store.
PasswordCalls == {c \in InFlight : c.op \in {"Insert", "ResetPassword"}}

\* C10: every password column is a bcrypt hash, and a step that creates a row
\* or changes a password column stores the hash of the plaintext of an Insert
\* or ResetPassword call in flight; Authenticate writes its rejection exactly
\* when CompareHashAndPassword of the stored hash and the password sent
\* returns an error.
C10_StoredPasswordIsHash ==
    /\ [](\A i \in DOMAIN users :
            /\ users[i].password.kind = "bcrypt"
            /\ \A pw \in Passwords : users[i].password # RawPassword(pw))
    /\ [][\A i \in DOMAIN users' :
            (i \notin DOMAIN users \/ users'[i].password # users[i].password)
            => \E c \in PasswordCalls, salt \in Salts :
                 users'[i].password = GenerateFromPassword(c.password, salt)]_vars
    /\ [](\A r \in Reqs :
            (Done(r, AuthKinds) /\ Found(r) /\ req[r].resp.body # <<>>
             /\ req[r].resp.body[1].message[1] # "dial tcp: logger-service unreachable")
            => (req[r].resp.body[1].error
                <=> CompareHashAndPassword(req[r].user[1].password,
                                           req[r].payload.password) # ""))

\* A row created by Register had its password reset to another hash.
C10_Witness ==
    /\ direct.result.op = "ResetPassword"
    /\ direct.result.err = ""
    /\ \E i \in DOMAIN users, salt \in Salts :
         users[i].password = GenerateFromPassword(<<2>>, salt)
         /\ users[i].first_name = "A"

\* The errors by which GetByEmail and GetOne say that the key has no row.
NotFound == {ErrNoUserEmail, ErrNoUserID}

\* The errors of the store that are faults, of the database or of the call.
StoreFaults == {ErrDeadlineExceeded, ErrDuplicateKey, ErrSyntax, ErrNoRows}

\* C11: GetByEmail and GetOne return their not-found error exactly when they
\* complete before the deadline on a key that has no row, and that error is
\* none of the errors the store returns for a fault; a lookup that timed out
\* returns the deadline error, whether the key has a row or not.
C11_NotFoundIsDistinguishable ==
    /\ [][(DirectReturns /\ direct.call.op \in {"GetByEmail", "GetOne"}) =>
            LET missing == IF direct.call.op = "GetByEmail"
                           THEN RowsOf(users, direct.call.email) = {}
                           ELSE direct.call.id \notin DOMAIN users
                expired == direct.call.elapsed >= dbTimeOut
                err == direct'.result.err
            IN  /\ err \in NotFound <=> (missing /\ ~expired)
                /\ err = ErrDeadlineExceeded <=> expired
                /\ err = "" <=> (~missing /\ ~expired)
                /\ err = "" => Len(direct'.result.rows) = 1]_vars
    /\ [](NotFound \cap StoreFaults = {} /\ "" \notin NotFound)

\* In a table that has rows,
\* GetOne on an id without row returned its not-found error.
C11_Witness ==
    /\ direct.result.op = "GetOne"
    /\ direct.result.err = ErrNoUserID
    /\ users # <<>>

\* C12: a Register refused because its email has a row answers with an error
\* envelope whose status is not of the 500 class, and so not with the status
\* of a Register that failed on a deadline or another fault of the store.
C12_DuplicateIsConflict ==
    \A r \in Reqs :
        (Done(r, {"Register"}) /\ req[r].log = ErrDuplicateKey)
        => /\ req[r].resp.body[1].error
           /\ req[r].resp.status \notin 500..599

\* C13: a request posts at most one "logged in" event, and only a request
\* whose lookup returned a row and whose password verifies against that row
\* posts one: a request that is rejected posts none.
C13_NotifyOnlyAfterVerify ==
    \A r \in Reqs :
        /\ req[r].notified <= 1
        /\ req[r].notified >= 1 => (Found(r) /\ Verified(r))

\* The Insert of Register request r succeeded and its read-back failed.
ReadBackFailed(r) ==
    /\ Done(r, {"Register"})
    /\ req[r].resp.body[1].error
    /\ req[r].resp.body[1].message[1] = "User not found after insert"

\* C14: a Register that answers with a failure has left no row of its own in
\* the table, also when its Insert succeeded and the GetOne that reads the
\* row back failed: the table then holds no row for the email it sent.
C14_FailedRegisterLeavesNoRecord ==
    \A r \in Reqs :
        ReadBackFailed(r) => RowsOf(users, req[r].payload.email) = {}

\* Register request r was answered with the success envelope.
Registered(r) == Done(r, {"Register"}) /\ ~req[r].resp.body[1].error

\* C15: whatever the interleaving of Register requests, no two rows share an
\* email or an id; two requests that both succeeded sent different emails and
\* were given different ids; a successful response carries the email, names
\* and active flag of its own request; and a request fails only on an email
\* that has a row or on a deadline, never because of a request for another
\* email.
C15_ConcurrentRegistersKeepKeysUnique ==
    /\ \A i, j \in DOMAIN users :
         (users[i].email = users[j].email \/ users[i].id = users[j].id) => i = j
    /\ \A ra, rb \in Reqs :
         (ra # rb /\ Registered(ra) /\ Registered(rb))
         => /\ req[ra].payload.email # req[rb].payload.email
            /\ req[ra].user[1].id # req[rb].user[1].id
    /\ \A r \in Reqs :
         Registered(r)
         => /\ req[r].resp.status = StatusAccepted
            /\ Len(req[r].resp.body) = 1
            /\ \E d \in req[r].resp.body[1].data :
                 /\ req[r].resp.body[1].data = {d}
                 /\ d.email = req[r].payload.email
                 /\ d.first_name = req[r].payload.profile.first
                 /\ d.last_name = req[r].payload.profile.last
                 /\ d.active = req[r].payload.profile.active
                 /\ d.id \in DOMAIN users /\ PublicProjection(users[d.id]) = d
    /\ \A r \in Reqs :
         (Done(r, {"Register"}) /\ ~LacksField(r) /\ ~Registered(r))
         => \/ req[r].log = ErrDuplicateKey /\ RowsOf(users, req[r].payload.email) # {}
            \/ req[r].log = ErrDeadlineExceeded
            \/ ReadBackFailed(r)

\* Two requests for one email have both been answered: one succeeded, the
\* other was refused as a duplicate.
C15_Witness ==
    \E ra, rb \in Reqs :
        /\ Registered(ra)
        /\ Done(rb, {"Register"}) /\ req[rb].log = ErrDuplicateKey
        /\ req[ra].payload.email = req[rb].payload.email
        /\ req[ra].payload.password # req[rb].payload.password

\* The row Update is meant to leave at id c.id: the receiver's email, names
\* and active flag, updated_at at stamp, the other columns as they were.
Updated(row, c, stamp) ==
    [row EXCEPT !.email = c.email, !.first_name = c.profile.first,
                !.last_name = c.profile.last, !.user_active = c.profile.active,
                !.updated_at = stamp]

\* C16: an Update that returns before its deadline, for an id that has a row
\* and an email no other row holds, returns no error and leaves that row with
\* the receiver's email, names and active flag and with updated_at at the
\* time of the call, its id, created_at and password and every other row
\* being as before.
C16_UpdateReplacesFields ==
    [][(/\ DirectReturns
        /\ direct.call.op = "Update"
        /\ direct.call.elapsed < dbTimeOut
        /\ direct.call.id \in DOMAIN users
        /\ \A i \in DOMAIN users \ {direct.call.id} : users[i].email # direct.call.email)
       => /\ direct'.result.err = ""
          /\ nextId' = nextId
          /\ \E stamp \in direct.call.at..now :
               users' = [users EXCEPT ![direct.call.id] = Updated(@, direct.call, stamp)]]_vars

\* The password row u was registered with: Register requests send the names
\* of ProfileOf with their password, and no operation changes the names.
RegisteredWith(u) == IF u.first_name = ProfileOf(<<1>>).first THEN <<1>> ELSE <<2>>

\* C17: once ResetPassword has given a row the hash of a password other than
\* the one it was registered with, an Authenticate for that row succeeds with
\* the new password and is refused with the previous one.
C17_ResetPasswordThenAuthenticate ==
    \A r \in Reqs :
        (Done(r, AuthKinds) /\ Found(r))
        => LET u == req[r].user[1]
               old == RegisteredWith(u)
           IN  \A new \in Passwords \ {old} :
                   (\E salt \in Salts : u.password = GenerateFromPassword(new, salt))
                   => /\ req[r].payload.password = new => Success(req[r].resp)
                      /\ req[r].payload.password = old => Refused(req[r].resp)

\* C18: once the context of a request is cancelled, the store operation that
\* was in flight for it goes on no further: it is not still running when its
\* own deadline passes, and a Register cancelled during its Insert gets no
\* id back from it and so creates no row.
C18_CancelAbortsStoreCall ==
    \A r \in Reqs :
        req[r].cancelled # ""
        => /\ req[r].call.op = req[r].cancelled => req[r].call.elapsed < dbTimeOut
           /\ req[r].cancelled = "Insert"
              => /\ req[r].pc # "GetOne"
                 /\ ~(req[r].pc = "done" /\ Registered(r))

====
